---- MODULE Spec2Model ----
(***************************************************************************)
(* A model of near.py: proximity search of several regular-expression      *)
(* terms inside a window of lines.                                         *)
(*                                                                         *)
(* A line of a file is represented by the set of term indexes whose        *)
(* pattern is found in it (the outcome of SearchTerm.found_in for every    *)
(* term); line numbers are 0-based as in the source, so line number n is   *)
(* element n+1 of the sequence `contents'.  Term 1 is the first positional *)
(* term, term 2 the second, then the --and terms, then the --or terms.     *)
(* The fields contents, term_linemaps and windows are those of the         *)
(* SearchFile being searched.                                              *)
(***************************************************************************)
EXTENDS Integers, Sequences, FiniteSets, TLC

\* ---- bounds of the model ------------------------------------------------
MaxLines == 3
MaxHits == 4
MaxTerms == 3
MaxWindowSize == 2
MaxFiles == 2
MaxRunLines == 1

\* ---- program constants --------------------------------------------------
DEFAULT_WINDOW_SIZE == 8
AND_MATCH == 0
OR_MATCH == 1

VARIABLES
  pc,             \* position of the run
  window_size,    \* app.config.window_size
  elastic,        \* app.config.elastic
  numbered_lines, \* app.config.numbered_lines
  terms,          \* app.terms.terms: the operation of every term
  contents,       \* SearchFile.contents
  term_linemaps,  \* SearchFile.term_linemaps
  windows,        \* SearchFile.windows
  output,         \* what display_all_matches has printed
  files,          \* app.files: the number of files named on the command line
  fidx,           \* position of AllSearchFiles.search in app.files
  stderr          \* what has been written to sys.stderr

vars == <<pc, window_size, elastic, numbered_lines, terms, contents,
          term_linemaps, windows, output, files, fidx, stderr>>

Min(a, b) == IF a <= b THEN a ELSE b

\* ---- class Window -------------------------------------------------------
\* a window reaching one line further than window_size
Window_one_more(lineno, end, match) ==
  [start |-> lineno,
   end |-> IF end # <<>> /\ end[1] # 0 THEN end[1] ELSE lineno + window_size + 1,
   has_match |-> match,
   lines |-> <<>>]

\* `end' is <<>> for None and <<e>> for a given end; 0 is falsy in Python.
Window(lineno, end, match) ==
  [start |-> lineno,
   end |-> IF end # <<>> /\ end[1] # 0 THEN end[1] ELSE lineno + window_size,
   has_match |-> match,
   lines |-> <<>>]

\* extend leaving the end of the window where it was
extend_noop(self, lineno) == self

extend(self, lineno) == [self EXCEPT !.end = lineno + window_size]

\* includes leaving out the last line of the window
includes_strict(self, lineno) == self.start <= lineno /\ lineno < self.end

includes(self, lineno) == self.start <= lineno /\ lineno <= self.end

\* merge never taking the end of the other window
merge_no_trim(self, other, operation) ==
  [self EXCEPT !.has_match = IF operation = AND_MATCH
                             THEN self.has_match /\ other.has_match
                             ELSE self.has_match \/ other.has_match]

\* merge taking the later end instead of the earlier one
merge_max(self, other, operation) ==
  LET e == IF other.has_match
           THEN (IF self.end >= other.end THEN self.end ELSE other.end)
           ELSE self.end
      m == IF operation = AND_MATCH
           THEN self.has_match /\ other.has_match
           ELSE self.has_match \/ other.has_match
  IN [self EXCEPT !.end = e, !.has_match = m]

merge(self, other, operation) ==
  LET e == IF other.has_match THEN Min(self.end, other.end) ELSE self.end
      m == IF operation = AND_MATCH
           THEN self.has_match /\ other.has_match
           ELSE self.has_match \/ other.has_match
  IN [self EXCEPT !.end = e, !.has_match = m]

dup(self) == Window(self.start, <<self.end>>, self.has_match)

\* capture slicing without the last line of the window
capture_exclusive(self, lines) ==
  [self EXCEPT !.lines =
     SubSeq(lines, Min(self.start, Len(lines)) + 1, Min(self.end, Len(lines)))]

\* lines[self.start:self.end+1] with Python's clamping of the slice
capture(self, lines) ==
  [self EXCEPT !.lines =
     SubSeq(lines, Min(self.start, Len(lines)) + 1, Min(self.end + 1, Len(lines)))]

\* ---- class TermLineMap --------------------------------------------------
\* match_line numbering the lines from 1
match_line_1based(linemap, term, lineno, line) ==
  IF term \in line THEN Append(linemap, lineno + 1) ELSE linemap

\* match_line: lineno is appended when the term is found in the line
match_line(linemap, term, lineno, line) ==
  IF term \in line THEN Append(linemap, lineno) ELSE linemap

bisect_left(a, x) == Cardinality({i \in 1..Len(a) : a[i] < x})

at_or_after(linemap, start) ==
  SubSeq(linemap, bisect_left(linemap, start) + 1, Len(linemap))

\* the inner while of candidates: <<window, rest of the line map>>
RECURSIVE candidate_extend(_, _)
candidate_extend(window, linemap) ==
  IF linemap # <<>> /\ includes(window, Head(linemap))
  THEN candidate_extend(extend(window, Head(linemap)), Tail(linemap))
  ELSE <<window, linemap>>

\* the windows the generator yields, in order, until the line map is empty
RECURSIVE candidates(_)
candidates(linemap) ==
  IF linemap = <<>> THEN <<>>
  ELSE LET r == candidate_extend(Window(Head(linemap), <<>>, FALSE), Tail(linemap))
       IN <<[r[1] EXCEPT !.has_match = TRUE]>> \o candidates(r[2])

\* the line map as the generator leaves it when it is exhausted
RECURSIVE candidates_left(_)
candidates_left(linemap) ==
  IF linemap = <<>> THEN linemap
  ELSE candidates_left(
         candidate_extend(Window(Head(linemap), <<>>, FALSE), Tail(linemap))[2])

\* the loop stretching for any hit one line past the end of the window
RECURSIVE match_loop_past_end(_, _, _)
match_loop_past_end(window, last_added, linenos) ==
  IF linenos = <<>> THEN <<window, last_added>>
  ELSE LET lineno == Head(linenos) IN
       IF includes(window, lineno)
       THEN match_loop_past_end(window, lineno, Tail(linenos))
       ELSE IF lineno = window.end + 1 /\ elastic
       THEN match_loop_past_end([window EXCEPT !.end = @ + 1], lineno, Tail(linenos))
       ELSE <<window, last_added>>

\* the for loop of match: <<window, last_added>>
RECURSIVE match_loop(_, _, _)
match_loop(window, last_added, linenos) ==
  IF linenos = <<>> THEN <<window, last_added>>
  ELSE LET lineno == Head(linenos) IN
       IF includes(window, lineno)
       THEN match_loop(window, lineno, Tail(linenos))
       ELSE IF lineno = last_added + 1 /\ elastic
       THEN match_loop([window EXCEPT !.end = @ + 1], lineno, Tail(linenos))
       ELSE <<window, last_added>>

\* match leaving the end of the window at its limit
match_keep_limit(linemap, candidate) ==
  LET window == [dup(candidate) EXCEPT !.has_match = FALSE]
      r == match_loop(window, -2, at_or_after(linemap, window.start))
  IN IF r[2] >= 0
     THEN [r[1] EXCEPT !.has_match = TRUE]
     ELSE r[1]

\* match looking window_size lines back from the start as well
match_lookback(linemap, candidate) ==
  LET window == [dup(candidate) EXCEPT !.has_match = FALSE,
                                       !.start = @ - window_size]
      r == match_loop(window, -2, at_or_after(linemap, window.start))
  IN IF r[2] >= 0
     THEN [r[1] EXCEPT !.end = r[2], !.has_match = TRUE]
     ELSE r[1]

match(linemap, candidate) ==
  LET window == [dup(candidate) EXCEPT !.has_match = FALSE]
      r == match_loop(window, -2, at_or_after(linemap, window.start))
  IN IF r[2] >= 0
     THEN [r[1] EXCEPT !.end = r[2], !.has_match = TRUE]
     ELSE r[1]

\* ---- class SearchFile ---------------------------------------------------
\* the inner for loop of scan_linemaps_for_window_matches over terms i..
RECURSIVE merge_terms(_, _, _, _)
merge_terms(result, window, linemaps, i) ==
  IF i > Len(linemaps) THEN result
  ELSE merge_terms(merge(result, match(linemaps[i], window), terms[i]),
                   window, linemaps, i + 1)

scan_result(window, linemaps) == merge_terms(dup(window), window, linemaps, 2)

\* the scan inserting each result at the front of the list
RECURSIVE scan_windows_prepend(_, _)
scan_windows_prepend(cands, linemaps) ==
  IF cands = <<>> THEN <<>>
  ELSE LET result == scan_result(Head(cands), linemaps)
       IN scan_windows_prepend(Tail(cands), linemaps)
          \o (IF result.has_match THEN <<result>> ELSE <<>>)

RECURSIVE scan_windows(_, _)
scan_windows(cands, linemaps) ==
  IF cands = <<>> THEN <<>>
  ELSE LET result == scan_result(Head(cands), linemaps)
       IN (IF result.has_match THEN <<result>> ELSE <<>>)
          \o scan_windows(Tail(cands), linemaps)

\* ---- the state machine --------------------------------------------------
\* what list(f) can give for a file that opens
FileLines == UNION {[1..n -> SUBSET (1..Len(terms))] : n \in 0..MaxRunLines}

\* the terms added by cli: two positional terms, the --and terms, the --or terms
term_operations(n_and, n_or) ==
  [i \in 1..(2 + n_and + n_or) |-> IF i <= 2 + n_and THEN AND_MATCH ELSE OR_MATCH]

\* SearchFile.__init__: one empty line map per term
new_linemaps(ts) == [i \in 1..Len(ts) |-> <<>>]

\* the state after app = App()
InitRun ==
  /\ pc = "cli"
  /\ window_size = DEFAULT_WINDOW_SIZE
  /\ elastic = TRUE
  /\ numbered_lines = TRUE
  /\ terms = <<>>
  /\ files = 0
  /\ fidx = 0
  /\ contents = <<>>
  /\ term_linemaps = <<>>
  /\ windows = <<>>
  /\ output = <<>>
  /\ stderr = <<>>

\* a SearchFile just constructed under some configuration and terms,
\* to which lines are then supplied one at a time
Init ==
  /\ pc = "read"
  /\ window_size \in 0..MaxWindowSize
  /\ elastic \in BOOLEAN
  /\ numbered_lines \in BOOLEAN
  /\ \E n_and, n_or \in 0..(MaxTerms - 2) :
       /\ 2 + n_and + n_or <= MaxTerms
       /\ terms = term_operations(n_and, n_or)
  /\ files = 1
  /\ fidx = 1
  /\ contents = <<>>
  /\ term_linemaps = new_linemaps(terms)
  /\ windows = <<>>
  /\ output = <<>>
  /\ stderr = <<>>

\* cli: the options are stored as given (--distance is any integer), the
\* terms are added and a SearchFile is made for every file;
\* app.files.search() then starts with the first file.
cli ==
  /\ pc = "cli"
  /\ \E distance \in (-MaxWindowSize)..MaxWindowSize, e \in BOOLEAN,
        number_lines \in BOOLEAN,
        n_and \in 0..(MaxTerms - 2), n_or \in 0..(MaxTerms - 2) :
       /\ 2 + n_and + n_or <= MaxTerms
       /\ window_size' = distance
       /\ elastic' = e
       /\ numbered_lines' = number_lines
       /\ terms' = term_operations(n_and, n_or)
       /\ term_linemaps' = new_linemaps(terms')
  /\ \E n \in 0..MaxFiles :
       /\ files' = n
       /\ fidx' = IF n = 0 THEN 0 ELSE 1
       /\ pc' = IF n = 0 THEN "done" ELSE "search"
  /\ UNCHANGED <<contents, windows, output, stderr>>

\* SearchFile.search, up to the reading of the file: either the lines of
\* the file are in contents, or an IOError is written to stderr and search
\* returns.
search_open ==
  /\ pc = "search"
  /\ \/ /\ \E lines \in FileLines : contents' = lines
        /\ pc' = "linemaps"
        /\ UNCHANGED stderr
     \/ /\ stderr' = Append(stderr, <<"IOError", fidx>>)
        /\ pc' = "loaded"
        /\ UNCHANGED contents
  /\ UNCHANGED <<window_size, elastic, numbered_lines, terms, files, fidx,
                 term_linemaps, windows, output>>

\* create_linemaps_for_terms: on the first line every term's line map is
\* offered the line, then self.border_term, an attribute SearchFile does
\* not have, is read: AttributeError, which search does not catch.
create_linemaps_for_terms ==
  /\ pc = "linemaps"
  /\ IF contents = <<>>
     THEN /\ pc' = "read"
          /\ UNCHANGED term_linemaps
     ELSE /\ term_linemaps' = [i \in 1..Len(terms) |->
                                 match_line(term_linemaps[i], i, 0, contents[1])]
          /\ pc' = "aborted"
  /\ UNCHANGED <<window_size, elastic, numbered_lines, terms, files, fidx,
                 contents, windows, output, stderr>>

\* the number of hits recorded so far, over all terms
hit_count(linemaps) ==
  Cardinality(UNION {{i} \X (1..Len(linemaps[i])) : i \in 1..Len(linemaps)})

\* one line is appended to the file and offered to every term's line map
read_line ==
  /\ pc = "read"
  /\ Len(contents) < MaxLines
  /\ \E line \in SUBSET (1..Len(terms)) :
       /\ hit_count(term_linemaps) + Cardinality(line) <= MaxHits
       /\ contents' = Append(contents, line)
       /\ term_linemaps' = [i \in 1..Len(terms) |->
                              match_line(term_linemaps[i], i, Len(contents), line)]
  /\ UNCHANGED <<pc, window_size, elastic, numbered_lines, terms, files, fidx,
                 windows, output, stderr>>

scan_linemaps_for_window_matches ==
  /\ pc = "read"
  /\ windows' = windows \o scan_windows(candidates(term_linemaps[1]), term_linemaps)
  /\ term_linemaps' = [term_linemaps EXCEPT ![1] = candidates_left(@)]
  /\ pc' = "scanned"
  /\ UNCHANGED <<window_size, elastic, numbered_lines, terms, files, fidx,
                 contents, output, stderr>>

load_windows ==
  /\ pc = "scanned"
  /\ windows' = [i \in 1..Len(windows) |-> capture(windows[i], contents)]
  /\ contents' = <<>>
  /\ pc' = "loaded"
  /\ UNCHANGED <<window_size, elastic, numbered_lines, terms, files, fidx,
                 term_linemaps, output, stderr>>

\* one printed block per window: the numbered lines and the separator
window_out(window) ==
  [i \in 1..Len(window.lines) |->
     [lineno |-> IF numbered_lines THEN <<i - 1 + window.start>> ELSE <<>>,
      line |-> window.lines[i]]]

\* display_all_matches, and the step of AllSearchFiles.search to the next
\* SearchFile, whose fields are as its constructor left them
display_all_matches ==
  /\ pc = "loaded"
  /\ output' = output
               \o (IF windows # <<>> THEN << [name |-> fidx] >> ELSE <<>>)
               \o [i \in 1..Len(windows) |-> window_out(windows[i])]
  /\ IF fidx < files
     THEN /\ fidx' = fidx + 1
          /\ pc' = "search"
          /\ contents' = <<>>
          /\ windows' = <<>>
          /\ term_linemaps' = new_linemaps(terms)
     ELSE /\ pc' = "done"
          /\ UNCHANGED <<fidx, contents, windows, term_linemaps>>
  /\ UNCHANGED <<window_size, elastic, numbered_lines, terms, files, stderr>>

\* The stages of one SearchFile whose line maps are filled through
\* match_line, one line at a time.  In the run of the command (NextRun)
\* create_linemaps_for_terms raises on the first line of a file, so the
\* run reaches the scan with empty line maps only.
Next ==
  \/ read_line
  \/ scan_linemaps_for_window_matches
  \/ load_windows
  \/ display_all_matches

Spec == Init /\ [][Next]_vars

\* the run of the command over its files
NextRun ==
  \/ cli
  \/ search_open
  \/ create_linemaps_for_terms
  \/ scan_linemaps_for_window_matches
  \/ load_windows
  \/ display_all_matches

SpecRun == InitRun /\ [][NextRun]_vars

\* ---- vocabulary of the properties ---------------------------------------
\* line numbers of the file on which term t matches
hits(t) == {n \in 0..(Len(contents) - 1) : t \in contents[n + 1]}

Required == {t \in 1..Len(terms) : terms[t] = AND_MATCH}
Optional == {t \in 1..Len(terms) : terms[t] = OR_MATCH}

SetMax(S) == CHOOSE x \in S : \A y \in S : y <= x

Bounds(ws) == [i \in 1..Len(ws) |-> <<ws[i].start, ws[i].end>>]

\* the line numbers held by a line map
LinesOf(linemap) == {linemap[i] : i \in 1..Len(linemap)}

\* the scan is the step from "read" to "scanned"
ScanStep == pc = "read" /\ pc' = "scanned"

\* term t has a hit inside the candidate window c, limits included
MatchedIn(t, c) == \E n \in LinesOf(term_linemaps[t]) : c.start <= n /\ n <= c.end

\* the policy of the validator for a candidate window c
ValidCandidate(c) ==
  /\ \A t \in Required : MatchedIn(t, c)
  /\ (Optional = {} \/ \E t \in Optional : MatchedIn(t, c))

\* C1: the scan emits a candidate window if and only if every required
\* term is matched in it and, when optional terms are declared, at least
\* one optional term is matched in it.
C1_ValidityPredicate ==
  [][ScanStep =>
       LET cands == candidates(term_linemaps[1]) IN
       \A k \in 1..Len(cands) :
         (\E i \in 1..Len(windows') : windows'[i].start = cands[k].start)
           <=> ValidCandidate(cands[k])]_vars

\* C2: consecutive windows never overlap: the end of a window is strictly
\* before the start of the next one.
C2_NoOverlap ==
  \A i \in 1..(Len(windows) - 1) : windows[i].end < windows[i + 1].start

C2_Witness ==
  /\ pc = "scanned"
  /\ Len(windows) >= 2
  /\ windows[1].end + 1 = windows[2].start

\* C3: the primary term only on line p and the second term only on line
\* p + window_size + 1: elastic gives the single window (p, p+window_size+1),
\* non-elastic gives no window.
C3_ElasticBoundary ==
  (pc = "scanned" /\ Len(terms) = 2) =>
    \A p \in 0..(Len(contents) - 1) :
      (hits(1) = {p} /\ hits(2) = {p + window_size + 1}) =>
        IF elastic
        THEN Bounds(windows) = << <<p, p + window_size + 1>> >>
        ELSE windows = <<>>

C5_WindowContainsRequired ==
  pc = "scanned" =>
    \A i \in 1..Len(windows) : \A t \in Required :
      \E n \in hits(t) : windows[i].start <= n /\ n <= windows[i].end

\* the hits of term t absorbed while the window of candidate c is built:
\* the hits inside the candidate and, when elastic, the unbroken run of
\* hits that continues from the candidate's last line
Absorbed(t, c) ==
  {n \in LinesOf(term_linemaps[t]) :
     /\ c.start <= n
     /\ \/ n <= c.end
        \/ /\ t # 1 /\ elastic
           /\ \A m \in c.end..n : m \in LinesOf(term_linemaps[t])}

\* C6: the end of an emitted window is the greatest line number among the
\* hits absorbed into it.
C6_EndIsLastAbsorbedHit ==
  [][ScanStep =>
       LET cands == candidates(term_linemaps[1]) IN
       \A k \in 1..Len(cands) : \A i \in 1..Len(windows') :
         windows'[i].start = cands[k].start =>
           windows'[i].end =
             SetMax(UNION {Absorbed(t, cands[k]) : t \in 1..Len(terms)})]_vars

\* a line that matches some term but not the primary one
NonPrimaryLine(n) == contents[n + 1] # {} /\ 1 \notin contents[n + 1]

\* C7: every window starts on a line of the primary term, and a line that
\* matches only other terms and precedes every primary line is outside
\* every window.
C7_OrderedAnchoring ==
  pc = "scanned" =>
    \A i \in 1..Len(windows) :
      /\ windows[i].start \in hits(1)
      /\ \A n \in 0..(Len(contents) - 1) :
           (NonPrimaryLine(n) /\ \A p \in hits(1) : n < p) =>
             ~(windows[i].start <= n /\ n <= windows[i].end)

C7_Witness ==
  /\ pc = "scanned"
  /\ windows # <<>>
  /\ NonPrimaryLine(0)
  /\ windows[1].start = 1

\* C8 as stated: a line matching only the second term, followed within
\* window_size lines by the primary line, opens a window at that line.
C8_UnorderedOpensWindow ==
  (pc = "scanned" /\ Len(terms) = 2) =>
    \A n, p \in 0..(Len(contents) - 1) :
      (hits(2) = {n} /\ hits(1) = {p} /\ n < p /\ p <= n + window_size) =>
        \E i \in 1..Len(windows) : windows[i].start = n

\* C8 amended: there is no unordered mode.  No window starts on a line
\* that matches only non-primary terms, and with two terms, when every hit
\* of the second term precedes every primary hit, no window is emitted.
C8_NoUnorderedMode ==
  pc = "scanned" =>
    /\ \A i \in 1..Len(windows) : \A n \in 0..(Len(contents) - 1) :
         NonPrimaryLine(n) => windows[i].start # n
    /\ (Len(terms) = 2 /\ \A n \in hits(2) : \A p \in hits(1) : n < p)
         => windows = <<>>

C8_Witness ==
  /\ pc = "scanned" /\ Len(terms) = 2
  /\ \E n, p \in 0..(Len(contents) - 1) :
       /\ hits(2) = {n} /\ hits(1) = {p}
       /\ n < p /\ p <= n + window_size
  /\ windows = <<>>

\* C9: the windows of the file, and the blocks printed for them, are in
\* strictly increasing order of start.
C9_MonotonicCoverage ==
  /\ \A i \in 1..(Len(windows) - 1) : windows[i].start < windows[i + 1].start
  /\ (pc = "done" /\ numbered_lines) =>
       \A k \in 2..(Len(output) - 1) :
         output[k][1].lineno[1] < output[k + 1][1].lineno[1]

C9_Witness ==
  /\ pc = "done" /\ numbered_lines
  /\ Len(windows) >= 2
  /\ Len(output) = Len(windows) + 1

\* file i could not be read: search has written its IOError to stderr
IOFailed(err, i) == \E k \in 1..Len(err) : err[k] = <<"IOError", i>>

\* C10: a file that cannot be read ends with no windows and prints
\* nothing, and the run goes on: every file after it is searched and
\* displayed, the run is never aborted.
C10_IOFailureIsLocal ==
  [][/\ (pc = "search" /\ IOFailed(stderr', fidx)) =>
          (pc' = "loaded" /\ windows' = <<>>)
     /\ (pc = "loaded" /\ IOFailed(stderr, fidx)) =>
          (windows = <<>> /\ output' = output /\ pc' \in {"search", "done"})
     /\ (\E i \in 1..(fidx' - 1) : IOFailed(stderr', i)) =>
          pc' # "aborted"]_vars

\* C11: with a window size of zero or less the run stops before any file
\* is opened or scanned.
C11_NonPositiveWindowSizeIsFatal ==
  [][window_size' <= 0 =>
       pc' \notin {"linemaps", "read", "scanned", "loaded", "aborted"}]_vars

\* C12: load_windows gives every window exactly the lines start..end of
\* the file, end - start + 1 of them, leaves start and end as they were,
\* and capturing the window once more from the same lines changes nothing.
C12_CaptureIsPureSlicing ==
  [][(pc = "scanned" /\ pc' = "loaded") =>
       /\ Len(windows') = Len(windows)
       /\ \A i \in 1..Len(windows) :
            LET w == windows[i]
                v == windows'[i]
            IN /\ v.start = w.start /\ v.end = w.end
               /\ Len(v.lines) = w.end - w.start + 1
               /\ \A k \in 1..Len(v.lines) : v.lines[k] = contents[w.start + k]
               /\ capture(v, contents) = v]_vars

C12_Witness ==
  /\ pc = "loaded"
  /\ \E i \in 1..Len(windows) :
       /\ windows[i].start > 0
       /\ Len(windows[i].lines) = 2
       /\ windows[i].lines[1] # windows[i].lines[2]

\* C13 as stated: a hit of any term within the limit moves the limit, so
\* with three required terms hit at p, p + window_size and
\* p + 2 * window_size only, the single window (p, p + 2 * window_size)
\* is emitted.
C13_AnyHitChains ==
  (pc = "scanned" /\ Len(terms) = 3 /\ Optional = {} /\ window_size >= 1) =>
    \A p \in 0..(Len(contents) - 1) :
      (/\ hits(1) = {p}
       /\ hits(2) = {p + window_size}
       /\ hits(3) = {p + 2 * window_size}) =>
        Bounds(windows) = << <<p, p + 2 * window_size>> >>

\* C13 amended: only hits of the primary term move the limit.  A term
\* other than the primary one is matched in a candidate exactly when it has
\* a hit between the candidate's start and its limit; three required terms
\* hit at p, p + window_size and p + 2 * window_size give no window, and
\* the primary term hit at p and p + window_size with the second term hit
\* at p + 2 * window_size gives the window (p, p + 2 * window_size).
C13_OnlyPrimaryHitsChain ==
  [][ScanStep =>
       /\ LET cands == candidates(term_linemaps[1]) IN
          \A k \in 1..Len(cands) : \A t \in 2..Len(terms) :
            match(term_linemaps[t], cands[k]).has_match <=> MatchedIn(t, cands[k])
       /\ window_size >= 1 =>
            \A p \in 0..(Len(contents) - 1) :
              /\ (/\ Len(terms) = 3 /\ Optional = {}
                  /\ hits(1) = {p}
                  /\ hits(2) = {p + window_size}
                  /\ hits(3) = {p + 2 * window_size}) => windows' = <<>>
              /\ (/\ Len(terms) = 2
                  /\ hits(1) = {p, p + window_size}
                  /\ hits(2) = {p + 2 * window_size}) =>
                   Bounds(windows') = << <<p, p + 2 * window_size>> >>]_vars

C13_Witness ==
  /\ pc = "scanned" /\ Len(terms) = 3 /\ Optional = {} /\ window_size >= 1
  /\ \E p \in 0..(Len(contents) - 1) :
       /\ hits(1) = {p}
       /\ hits(2) = {p + window_size}
       /\ hits(3) = {p + 2 * window_size}
  /\ windows = <<>>

\* C14: for a file that opens, whatever its number of lines, the term
\* scan covers all its lines and search goes on to window building and
\* materialization without raising.
C14_SearchCompletesOnReadableFile ==
  [][pc = "linemaps" =>
       /\ pc' = "read"
       /\ \A t \in 1..Len(terms) : LinesOf(term_linemaps'[t]) = hits(t)]_vars

\* C15: candidates() empties the primary line map; every primary line is
\* inside exactly one candidate, every candidate starts on a primary line
\* and ends window_size after its last primary line, and two consecutive
\* primary lines p < q are in the same candidate exactly when
\* q <= p + window_size.
C15_CandidatesPartitionPrimaryHits ==
  [][ScanStep =>
       LET P == LinesOf(term_linemaps[1])
           cands == candidates(term_linemaps[1])
           In(k) == {p \in P : includes(cands[k], p)}
       IN /\ term_linemaps'[1] = <<>>
          /\ \A p \in P : Cardinality({k \in 1..Len(cands) : p \in In(k)}) = 1
          /\ \A k \in 1..Len(cands) :
               /\ cands[k].start \in P
               /\ cands[k].end = SetMax(In(k) \cup {cands[k].start}) + window_size
          /\ \A p, q \in P :
               (p < q /\ ~\E r \in P : p < r /\ r < q) =>
                 ((\E k \in 1..Len(cands) : p \in In(k) /\ q \in In(k))
                    <=> q <= p + window_size)]_vars

C15_Witness ==
  /\ pc = "scanned"
  /\ window_size = 1
  /\ hits(1) = {0, 1}
  /\ Len(contents) = 3
  /\ term_linemaps[1] = <<>>

\* C16: every emitted window has 0 <= start <= end < number of lines of
\* the file.
C16_WindowBoundsWellFormed ==
  pc = "scanned" =>
    \A i \in 1..Len(windows) :
      /\ 0 <= windows[i].start
      /\ windows[i].start <= windows[i].end
      /\ windows[i].end < Len(contents)

C16_Witness ==
  /\ pc = "scanned"
  /\ \E i \in 1..Len(windows) :
       /\ windows[i].start < windows[i].end
       /\ windows[i].end = Len(contents) - 1
       /\ windows[i].start + window_size >= Len(contents)

\* C17: without elasticity every emitted window holds a primary line p,
\* start <= p <= end, with end - p <= window_size.
C17_NearnessBound ==
  (pc = "scanned" /\ ~elastic) =>
    \A i \in 1..Len(windows) :
      \E p \in hits(1) :
        /\ windows[i].start <= p /\ p <= windows[i].end
        /\ windows[i].end - p <= window_size

C17_Witness ==
  /\ pc = "scanned" /\ ~elastic /\ window_size >= 1
  /\ \E i \in 1..Len(windows) :
       /\ windows[i].end - windows[i].start = window_size
       /\ \A p \in hits(1) :
            (windows[i].start <= p /\ p <= windows[i].end) => p = windows[i].start

====
